---- MODULE Spec2Model ----
(***************************************************************************)
(* BNEP connection-setup server of network/server.c: the listener, the     *)
(* per-connection setup sessions, the asynchronous RequestAuthorization    *)
(* calls and the server objects the sessions are admitted to.              *)
(***************************************************************************)
EXTENDS Integers, Sequences, FiniteSets, TLC

\* ------------------------------------------------------------------ bounds
MaxPeers == 2      \* distinct remote Bluetooth addresses
MaxPtrs == 2       \* heap addresses g_new0 hands out for struct setup_session
MaxSessions == 2   \* connections accepted into a session over one run
MaxPending == 3    \* RequestAuthorization calls outstanding at once

\* --------------------------------------------------------------- constants
\* the BNEP_* values are those of the BNEP header the file includes
SETUP_TIMEOUT == 1000
MAX_SETUP_ATTEMPTS == 3

BNEP_CONTROL == 1
BNEP_SETUP_CONN_REQ == 1
BNEP_SETUP_CONN_RSP == 2

BNEP_SUCCESS == 0
BNEP_CONN_INVALID_DST == 1
BNEP_CONN_INVALID_SRC == 2
BNEP_CONN_INVALID_SVC == 3
BNEP_CONN_NOT_ALLOWED == 4

BNEP_SVC_PANU == 4373   \* 0x1115
BNEP_SVC_NAP == 4374    \* 0x1116
BNEP_SVC_GN == 4375     \* 0x1117

\* sizeof(struct bnep_setup_conn_req): type, ctrl, uuid_size, service[0]
SizeofReq == 3

Peers == 1..MaxPeers
Ptrs == 1..MaxPtrs
Sks == 1..MaxSessions
\* the roles a server object is registered for: a NAP server, none for GN, PANU
ServerRoles == {BNEP_SVC_NAP}

FREE == [free |-> TRUE]
NONE == [none |-> TRUE]

\* ------------------------------------------------------------------- state
VARIABLES
    heap,            \* Ptrs -> struct setup_session, or FREE
    setup_sessions,  \* GSList of session pointers
    sources,         \* GLib sources registered for sessions (watches, timeouts)
    bnep_io,         \* listening channel: "open" | "closed"
    listen_watch,    \* connect_event still registered on the listening channel
    servers,         \* role -> struct network_server
    pending,         \* outstanding RequestAuthorization pending calls
    nextSk,          \* number of the next accepted socket
    exited,          \* server_exit has run (connection is NULL)
    closed,          \* accepted sockets the listener closed at once
    wire,            \* socket -> responses sent on it (bytes)
    requested,       \* socket -> number of RequestAuthorization messages sent for it
    cancelled,       \* socket -> CancelAuthorizationRequest messages sent for it
    freed,           \* socket -> number of times its session was freed
    cause,           \* socket -> the handler that tore its session down, and s->attempts then
    chk              \* a call of chk_role: its arguments and what it returned

vars == <<heap, setup_sessions, sources, bnep_io, listen_watch, servers, pending,
          nextSk, exited, closed, wire, requested, cancelled, freed, cause, chk>>

\* ----------------------------------------------------------------- helpers
\* g_slist_find(setup_sessions, data): pointer comparison
g_slist_find(list, data) == \E i \in DOMAIN list : list[i] = data

\* setup_cmp with its result read as "equal" when strcmp is non-zero
setup_cmp_inverted(s, addr) == s.address # addr

\* setup_cmp: strcmp(s->address, addr) = 0
setup_cmp(s, addr) == s.address = addr

\* a lookup that walks no element of the list
g_slist_find_custom_none(list, addr) == FALSE

\* g_slist_find_custom(setup_sessions, peer, setup_cmp)
g_slist_find_custom(list, addr) ==
    \E i \in DOMAIN list : setup_cmp(heap[list[i]], addr)

\* g_slist_remove: drops the first element equal to data
g_slist_remove(list, data) ==
    LET idx == {i \in DOMAIN list : list[i] = data}
    IN  IF idx = {} THEN list
        ELSE LET k == CHOOSE i \in idx : \A j \in idx : i <= j
             IN  SubSeq(list, 1, k - 1) \o SubSeq(list, k + 1, Len(list))

\* the source ids g_io_add_watch_full and g_timeout_add return: non-zero, unique
WatchId(sk) == 2 * sk - 1
TimeoutId(sk) == 2 * sk

\* g_source_remove(id)
g_source_remove(srcs, id) == {x \in srcs : x.id # id}

\* htons + send: the response as it goes out, high byte first
send_bnep_ctrl_rsp(response) ==
    <<BNEP_CONTROL, BNEP_SETUP_CONN_RSP, response \div 256, response % 256>>

\* chk_role without GN among the sources a PANU destination accepts
chk_role_no_gn(dst_role, src_role) ==
    CASE dst_role \in {BNEP_SVC_NAP, BNEP_SVC_GN} ->
            IF src_role = BNEP_SVC_PANU THEN 0 ELSE BNEP_CONN_INVALID_SRC
      [] dst_role = BNEP_SVC_PANU ->
            IF src_role \in {BNEP_SVC_PANU, BNEP_SVC_NAP}
            THEN 0 ELSE BNEP_CONN_INVALID_SRC
      [] OTHER -> BNEP_CONN_INVALID_DST

\* chk_role(dst_role, src_role): allowed PAN profile scenarios
chk_role(dst_role, src_role) ==
    CASE dst_role \in {BNEP_SVC_NAP, BNEP_SVC_GN} ->
            IF src_role = BNEP_SVC_PANU THEN 0 ELSE BNEP_CONN_INVALID_SRC
      [] dst_role = BNEP_SVC_PANU ->
            IF src_role \in {BNEP_SVC_PANU, BNEP_SVC_GN, BNEP_SVC_NAP}
            THEN 0 ELSE BNEP_CONN_INVALID_SRC
      [] OTHER -> BNEP_CONN_INVALID_DST

NoRsp == 0 - 1
NoCall == [dst |-> 0, src |-> 0, ret |-> NoRsp]

\* server_register(path, src, id): the new server object
server_register(id) ==
    [id |-> id, enable |-> FALSE, record_id |-> 0, clients |-> <<>>,
     name |-> "BlueZ service"]

\* -------------------------------------------------------------------- Init
\* server_init has run and the server objects are registered
Init ==
    /\ heap = [p \in Ptrs |-> FREE]
    /\ setup_sessions = <<>>
    /\ sources = {}
    /\ bnep_io = "open"
    /\ listen_watch = TRUE
    /\ servers = [r \in ServerRoles |-> server_register(r)]
    /\ pending = {}
    /\ nextSk = 1
    /\ exited = FALSE
    /\ closed = {}
    /\ wire = [k \in Sks |-> <<>>]
    /\ requested = [k \in Sks |-> 0]
    /\ cancelled = [k \in Sks |-> <<>>]
    /\ freed = [k \in Sks |-> 0]
    /\ cause = [k \in Sks |-> [by |-> "", attempts |-> 0]]
    /\ chk = NoCall

\* ----------------------------------------------------------- connect_event
\* a new session whose deadline timer id is not kept
new_session_no_timer(peer, nsk) ==
    [address |-> peer, dst_role |-> 0, src_role |-> 0, nsk |-> nsk, attempts |-> 0,
     watch |-> WatchId(nsk), timeout |-> 0]

\* g_new0(struct setup_session, 1) with address, nsk, watch and timeout set
new_session(peer, nsk) ==
    [address |-> peer, dst_role |-> 0, src_role |-> 0, nsk |-> nsk, attempts |-> 0,
     watch |-> WatchId(nsk), timeout |-> TimeoutId(nsk)]

\* accept() on the listening socket: the socket of a peer that has a session
\* is closed, else a new session is allocated, watched, timed and appended
connect_event(peer, p) ==
    /\ listen_watch /\ bnep_io = "open"
    /\ nextSk <= MaxSessions
    \* the names of the first peer and of the first address are immaterial
    /\ nextSk = 1 => peer = 1 /\ p = 1
    /\ nextSk' = nextSk + 1
    /\ IF g_slist_find_custom(setup_sessions, peer)
       THEN /\ closed' = closed \cup {[sk |-> nextSk, peer |-> peer]}
            /\ UNCHANGED <<heap, setup_sessions, sources>>
       ELSE /\ heap[p] = FREE
            /\ heap' = [heap EXCEPT ![p] = new_session(peer, nextSk)]
            /\ sources' = sources \cup
                   {[id |-> WatchId(nextSk), kind |-> "watch", data |-> p, sk |-> nextSk],
                    [id |-> TimeoutId(nextSk), kind |-> "timeout", data |-> p, sk |-> nextSk]}
            /\ setup_sessions' = Append(setup_sessions, p)
            /\ UNCHANGED closed
    /\ UNCHANGED <<bnep_io, listen_watch, servers, pending, exited,
                   wire, requested, cancelled, freed, cause, chk>>

\* G_IO_NVAL, or G_IO_ERR | G_IO_HUP, on the listening socket: the watch ends
connect_event_cond(cond) ==
    /\ listen_watch
    /\ cond \in {"HUP", "NVAL"}
    /\ cond = "NVAL" <=> bnep_io = "closed"
    /\ listen_watch' = FALSE
    /\ bnep_io' = "closed"
    /\ UNCHANGED <<heap, setup_sessions, sources, servers, pending, nextSk,
                   exited, closed, wire, requested, cancelled, freed, cause, chk>>

\* ------------------------------------------------------ setup_watch_destroy
\* a teardown that finds no session
setup_watch_destroy_none(st, data) == st

\* the teardown without the g_source_remove of the session's watch
setup_watch_destroy_keeps_watch(st, data) ==
    IF ~g_slist_find(st.sessions, data) THEN st
    ELSE LET s == st.heap[data]
         IN  [sessions |-> g_slist_remove(st.sessions, data),
              sources |-> IF s.timeout # 0 THEN g_source_remove(st.sources, s.timeout)
                          ELSE st.sources,
              heap |-> [st.heap EXCEPT ![data] = FREE],
              freed |-> [st.freed EXCEPT ![s.nsk] = @ + 1]]

\* st = [sessions, sources, heap, freed]; the teardown of the session at data,
\* a no-op when data is not in setup_sessions (g_source_remove of the watch
\* re-enters setup_watch_destroy, which then finds nothing)
setup_watch_destroy(st, data) ==
    IF ~g_slist_find(st.sessions, data) THEN st
    ELSE LET s == st.heap[data]
             s1 == IF s.watch # 0 THEN g_source_remove(st.sources, s.watch)
                   ELSE st.sources
             s2 == IF s.timeout # 0 THEN g_source_remove(s1, s.timeout) ELSE s1
         IN  [sessions |-> g_slist_remove(st.sessions, data),
              sources |-> s2,
              heap |-> [st.heap EXCEPT ![data] = FREE],
              freed |-> [st.freed EXCEPT ![s.nsk] = @ + 1]]

State == [sessions |-> setup_sessions, sources |-> sources, heap |-> heap,
          freed |-> freed]

\* the handler that freed each session a step frees, and its s->attempts in hp
torn_down(frd, by, hp) ==
    [k \in Sks |->
        IF frd[k] > freed[k]
        THEN [by |-> by,
              attempts |-> hp[CHOOSE p \in Ptrs : hp[p] # FREE /\ hp[p].nsk = k].attempts]
        ELSE cause[k]]

\* dbus_connection_get_object_user_data(connection, NETWORK_PATH/bnep_name(role)):
\* the server object of the role, NONE when there is none (or no connection)
get_object_user_data(role) ==
    IF exited \/ role \notin DOMAIN servers THEN NONE ELSE servers[role]

\* a lookup that finds an enabled server for every role
server_enabled_always(role) == TRUE

\* ns != NULL && ns->enable, for the server object of the role
server_enabled(role) ==
    LET ns == get_object_user_data(role) IN ns # NONE /\ ns.enable

\* ------------------------------------------------------------- the packets
\* a setup request as the peer encodes it: 16-bit roles, high byte first
SetupReq(type, ctrl, usz, dst, src) ==
    <<type, ctrl, usz, dst \div 256, dst % 256, src \div 256, src % 256>>

RoleValues == {BNEP_SVC_PANU, BNEP_SVC_NAP, BNEP_SVC_GN, BNEP_SVC_GN + 1}

GoodPackets ==
    {SetupReq(BNEP_CONTROL, BNEP_SETUP_CONN_REQ, 2, d, s) : d, s \in RoleValues}

BadPackets ==
    { <<>>,
      SetupReq(0, BNEP_SETUP_CONN_REQ, 2, BNEP_SVC_NAP, BNEP_SVC_PANU),
      SetupReq(BNEP_CONTROL, BNEP_SETUP_CONN_RSP, 2, BNEP_SVC_NAP, BNEP_SVC_PANU),
      SetupReq(BNEP_CONTROL, BNEP_SETUP_CONN_REQ, 2, BNEP_SVC_NAP, BNEP_SVC_PANU) \o <<0>>,
      SubSeq(SetupReq(BNEP_CONTROL, BNEP_SETUP_CONN_REQ, 2, BNEP_SVC_NAP, BNEP_SVC_PANU), 1, 5),
      SetupReq(BNEP_CONTROL, BNEP_SETUP_CONN_REQ, 4, BNEP_SVC_PANU, BNEP_SVC_NAP),
      <<BNEP_CONTROL, BNEP_SETUP_CONN_REQ, 4, 0, 0, 17, 21, 0, 0, 17, 22>>,
      <<0, BNEP_SETUP_CONN_RSP, 4, 0, 0, 17, 21, 0, 0, 17, 22>> }

Packets == GoodPackets \cup BadPackets

\* pkt is zeroed before recv
byte(pkt, i) == IF i <= Len(pkt) THEN pkt[i] ELSE 0

\* ntohs(bt_get_unaligned(p))
get_role(pkt, off) == byte(pkt, off) * 256 + byte(pkt, off + 1)

\* ----------------------------------------------------- connect_setup_event
\* the size check that lets only a uuid_size of 2 through, whatever was received
bad_size_no_length(pkt) == byte(pkt, 3) # 2

\* req->uuid_size != 2 || r != (sizeof(*req) + req->uuid_size * 2)
bad_size(pkt) ==
    byte(pkt, 3) # 2 \/ Len(pkt) # SizeofReq + byte(pkt, 3) * 2

\* the retry bound with >= for >
over_attempts_early(attempts) == attempts >= MAX_SETUP_ATTEMPTS

\* ++s->attempts > MAX_SETUP_ATTEMPTS, on the incremented value
over_attempts(attempts) == attempts > MAX_SETUP_ATTEMPTS

\* the type check that lets every packet through
bad_type_never(pkt) == FALSE

\* req->type != BNEP_CONTROL || req->ctrl != BNEP_SETUP_CONN_REQ
bad_type(pkt) ==
    byte(pkt, 1) # BNEP_CONTROL \/ byte(pkt, 2) # BNEP_SETUP_CONN_REQ

\* a hangup that never cancels
hup_cancels_never(attempts) == FALSE

\* if (s->attempts) cancel_authorization(s), on a hangup or socket error
hup_cancels(attempts) == attempts # 0

\* The handler proper, on the session s read through the watch's data
\* pointer: what is left of s, whether the watch is kept, the response sent
\* (NoRsp: none), and whether a cancel and a RequestAuthorization go out.
setup_handler(s, cond, pkt, sendok) ==
    LET uuid_size == byte(pkt, 3)
        dst == get_role(pkt, SizeofReq + 1)
        src == get_role(pkt, SizeofReq + 1 + uuid_size)
        s1 == [s EXCEPT !.dst_role = dst, !.src_role = src]
        s2 == [s1 EXCEPT !.timeout = 0]
        s3 == [s2 EXCEPT !.attempts = @ + 1]
        out(sx, keep, rsp, cancel, auth) ==
            [s |-> sx, keep |-> keep, response |-> rsp, cancel |-> cancel,
             authorize |-> auth]
    IN  CASE cond = "NVAL" -> out(s, FALSE, NoRsp, FALSE, FALSE)
          [] cond = "HUP" -> out(s, FALSE, NoRsp, hup_cancels(s.attempts), FALSE)
          [] OTHER ->
            IF bad_size(pkt)
            THEN out(s, FALSE, BNEP_CONN_INVALID_SVC, FALSE, FALSE)
            ELSE IF bad_type(pkt)
            THEN out(s, FALSE, NoRsp, FALSE, FALSE)
            ELSE IF chk_role(src, dst) # 0
            THEN out(s1, FALSE, chk_role(src, dst), FALSE, FALSE)
            ELSE IF ~server_enabled(dst)
            THEN out(s1, FALSE, BNEP_CONN_NOT_ALLOWED, FALSE, FALSE)
            ELSE IF over_attempts(s3.attempts)
            THEN out(s3, FALSE, BNEP_CONN_NOT_ALLOWED, FALSE, FALSE)
            ELSE IF ~sendok
            THEN out(s3, FALSE, BNEP_CONN_NOT_ALLOWED, FALSE, FALSE)
            ELSE out(s3, TRUE, NoRsp, FALSE, TRUE)

\* What a read through a dangling session pointer yields after server_exit:
\* nothing the handler then does with it is observable (no connection left)
Stale == [address |-> 0, dst_role |-> 0, src_role |-> 0, nsk |-> 0,
          attempts |-> 1, watch |-> 0, timeout |-> 0]

Conds == {"IN", "HUP", "NVAL"}

\* the message cancel_authorization and authorize_connection send
auth_msg(s) == [address |-> s.address, uuid |-> s.dst_role]

\* pending is a bag of calls: equal calls are told apart by n, numbered from 1,
\* and the one with the highest n is the one taken out
same_calls(calls, c) ==
    {x \in calls : x.data = c.data /\ x.sk = c.sk /\ x.msg = c.msg}

add_pending(calls, c) ==
    calls \cup {[n |-> Cardinality(same_calls(calls, c)) + 1, data |-> c.data,
                 sk |-> c.sk, msg |-> c.msg]}

\* inputs the handler does not read are held at one value
SetupInputs ==
    {i \in [cond : Conds, pkt : Packets, sendok : BOOLEAN] :
        /\ i.cond # "IN" => i.pkt = <<>> /\ i.sendok
        /\ ~i.sendok => i.pkt \in GoodPackets}

connect_setup_event(w, cond, pkt, sendok) ==
    /\ w \in sources /\ w.kind = "watch"
    /\ [cond |-> cond, pkt |-> pkt, sendok |-> sendok] \in SetupInputs
    /\ LET d == w.data
           live == heap[d] # FREE
           res == setup_handler(IF live THEN heap[d] ELSE Stale, cond, pkt, sendok)
           \* g_source_remove(s->timeout) at the first valid message
           srcs1 == IF live /\ heap[d].timeout # 0 /\ res.s.timeout = 0
                    THEN g_source_remove(sources, heap[d].timeout) ELSE sources
           heap1 == IF live THEN [heap EXCEPT ![d] = res.s] ELSE heap
           st1 == [sessions |-> setup_sessions, sources |-> srcs1, heap |-> heap1,
                   freed |-> freed]
           \* returning FALSE removes the watch, whose destroy notify runs
           st2 == IF res.keep THEN st1
                  ELSE setup_watch_destroy(
                           [st1 EXCEPT !.sources = g_source_remove(srcs1, w.id)], d)
           cancel == res.cancel /\ ~exited
       IN  /\ res.authorize => Cardinality(pending) < MaxPending
           /\ heap' = st2.heap
           /\ setup_sessions' = st2.sessions
           /\ sources' = st2.sources
           /\ freed' = st2.freed
           /\ cause' = torn_down(st2.freed,
                                 CASE cond = "HUP" -> "hup" [] cond = "NVAL" -> "nval"
                                   [] OTHER -> "watch",
                                 heap1)
           /\ wire' = IF res.response = NoRsp THEN wire
                      ELSE [wire EXCEPT ![w.sk] = Append(@, send_bnep_ctrl_rsp(res.response))]
           /\ cancelled' = IF cancel
                           THEN [cancelled EXCEPT ![w.sk] = Append(@, auth_msg(res.s))]
                           ELSE cancelled
           /\ requested' = IF res.authorize
                           THEN [requested EXCEPT ![w.sk] = @ + 1] ELSE requested
           /\ pending' = IF res.authorize
                         THEN add_pending(pending, [data |-> d, sk |-> w.sk,
                                                    msg |-> auth_msg(res.s)])
                         ELSE pending
    /\ UNCHANGED <<bnep_io, listen_watch, servers, nextSk, exited, closed, chk>>

\* ------------------------------------------------------------ setup_timeout
setup_timeout(t) ==
    /\ t \in sources /\ t.kind = "timeout"
    /\ LET st == setup_watch_destroy(State, t.data)
       IN  /\ heap' = st.heap
           /\ setup_sessions' = st.sessions
           \* returning FALSE removes the timeout source itself
           /\ sources' = g_source_remove(st.sources, t.id)
           /\ freed' = st.freed
           /\ cause' = torn_down(st.freed, "timeout", heap)
    /\ UNCHANGED <<bnep_io, listen_watch, servers, pending, nextSk, exited, closed,
                   wire, requested, cancelled, chk>>

\* --------------------------------------------------- authorization_callback
\* Outcomes of the interface bring-up the callback asks for: bnep_connadd,
\* bridge_get_name (a bridge exists for the role), bridge_add_interface and
\* bnep_if_up; a step not reached is held at TRUE
BringUps ==
    {b \in [connadd : BOOLEAN, bridge : BOOLEAN, attach : BOOLEAN, ifup : BOOLEAN] :
        /\ ~b.connadd => b.bridge /\ b.attach /\ b.ifup
        /\ ~b.bridge => b.attach
        /\ ~b.attach => b.ifup}

NoBringUp == [connadd |-> TRUE, bridge |-> TRUE, attach |-> TRUE, ifup |-> TRUE]

Replies == {"approved", "denied", "noreply"}

\* a server object that is always taken as present and enabled
server_gone_never(ns) == FALSE

\* ns == NULL || ns->enable == FALSE
server_gone(ns) == ns = NONE \/ ~ns.enable

\* an error reply of any name read as a no-reply
no_reply_any(reply) == TRUE

\* dbus_error_has_name(&derr, DBUS_ERROR_NO_REPLY)
no_reply(reply) == reply = "noreply"

\* the callback on a session found in setup_sessions: the response sent,
\* whether the request is cancelled, whether the peer joins ns->clients
authorization_callback(s, ns, reply, b) ==
    LET failed(cancel) ==
            [response |-> BNEP_CONN_NOT_ALLOWED, cancel |-> cancel, admit |-> FALSE]
    IN  IF server_gone(ns) THEN failed(FALSE)
        ELSE IF reply # "approved" THEN failed(no_reply(reply))
        ELSE IF ~b.connadd THEN failed(FALSE)
        ELSE IF b.bridge /\ ~b.attach THEN failed(FALSE)
        \* the value bnep_if_up returns is not read
        ELSE [response |-> BNEP_SUCCESS, cancel |-> FALSE, admit |-> TRUE]

ReplyInputs ==
    {i \in [reply : Replies, b : BringUps] : i.reply # "approved" => i.b = NoBringUp}

\* a pending call completes: the notify function runs, then the call is
\* released and its free function, setup_watch_destroy, runs on the same data
authorization_reply(c, reply, b) ==
    /\ c \in pending
    /\ [reply |-> reply, b |-> b] \in ReplyInputs
    /\ c.n = Cardinality(same_calls(pending, c))
    /\ LET d == c.data
           found == g_slist_find(setup_sessions, d)
           s == heap[d]
           ns == get_object_user_data(s.dst_role)
           res == authorization_callback(s, ns, reply, b)
           st == setup_watch_destroy(State, d)
       IN  /\ pending' = pending \ {c}
           /\ heap' = st.heap
           /\ setup_sessions' = st.sessions
           /\ sources' = st.sources
           /\ freed' = st.freed
           /\ cause' = torn_down(st.freed, "reply", heap)
           /\ IF found
              THEN /\ wire' = [wire EXCEPT ![s.nsk] =
                                  Append(@, send_bnep_ctrl_rsp(res.response))]
                   /\ cancelled' = IF res.cancel
                                   THEN [cancelled EXCEPT ![s.nsk] = Append(@, auth_msg(s))]
                                   ELSE cancelled
                   /\ servers' = IF res.admit
                                 THEN [servers EXCEPT ![s.dst_role].clients =
                                          Append(@, s.address)]
                                 ELSE servers
              ELSE UNCHANGED <<wire, cancelled, servers>>
    /\ UNCHANGED <<bnep_io, listen_watch, nextSk, exited, closed, requested, chk>>

\* -------------------------------------------------------------- server_exit
server_exit ==
    /\ ~exited
    /\ heap' = [p \in Ptrs |-> IF g_slist_find(setup_sessions, p) THEN FREE ELSE heap[p]]
    /\ freed' = [k \in Sks |->
                    freed[k] + Cardinality({i \in DOMAIN setup_sessions :
                                               heap[setup_sessions[i]].nsk = k})]
    /\ cause' = [k \in Sks |->
                    IF \E i \in DOMAIN setup_sessions : heap[setup_sessions[i]].nsk = k
                    THEN [by |-> "exit",
                          attempts |-> heap[CHOOSE p \in Ptrs :
                                              heap[p] # FREE /\ heap[p].nsk = k].attempts]
                    ELSE cause[k]]
    /\ setup_sessions' = <<>>
    /\ bnep_io' = "closed"
    /\ exited' = TRUE
    /\ UNCHANGED <<sources, listen_watch, servers, pending, nextSk, closed,
                   wire, requested, cancelled, chk>>

\* ------------------------------------------------------- the server objects
\* register_server_record: the handle of the new record, 0 on failure
RecordHandles == {0, 1}

\* Enable: adapter is whether a local adapter address is available
enable(role, adapter, handle) ==
    /\ ~exited
    /\ servers[role] # NONE
    /\ ~adapter => handle = 0
    /\ servers' =
          IF servers[role].enable \/ ~adapter THEN servers
          ELSE IF handle = 0 THEN [servers EXCEPT ![role].record_id = 0]
          ELSE [servers EXCEPT ![role].record_id = handle, ![role].enable = TRUE]
    /\ UNCHANGED <<heap, setup_sessions, sources, bnep_io, listen_watch, pending,
                   nextSk, exited, closed, wire, requested, cancelled, freed, cause, chk>>

disable(role) ==
    /\ ~exited
    /\ servers[role] # NONE
    /\ servers' =
          IF ~servers[role].enable THEN servers
          ELSE [servers EXCEPT ![role].record_id = 0, ![role].enable = FALSE]
    /\ UNCHANGED <<heap, setup_sessions, sources, bnep_io, listen_watch, pending,
                   nextSk, exited, closed, wire, requested, cancelled, freed, cause, chk>>

Next ==
    \/ \E peer \in Peers, p \in Ptrs : connect_event(peer, p)
    \/ \E cond \in {"HUP", "NVAL"} : connect_event_cond(cond)
    \/ \E w \in sources, cond \in Conds, pkt \in Packets, sendok \in BOOLEAN :
          connect_setup_event(w, cond, pkt, sendok)
    \/ \E t \in sources : setup_timeout(t)
    \/ \E c \in pending, reply \in Replies, b \in BringUps : authorization_reply(c, reply, b)
    \/ server_exit
    \/ \E role \in ServerRoles, adapter \in BOOLEAN, h \in RecordHandles :
          enable(role, adapter, h)
    \/ \E role \in ServerRoles : disable(role)

Spec == Init /\ [][Next]_vars

\* ---------------------------------------------- the server objects on their own
\* the roles a server object can be registered for
AllRoles == {BNEP_SVC_PANU, BNEP_SVC_NAP, BNEP_SVC_GN}

\* names a caller of SetName passes: the empty one is refused
Names == {"", "lan"}

\* what textfile_get(filename, "name") gives: a stored name, or "" for NULL
FileNames == {"", "stored"}

\* what textfile_get(filename, "enabled") gives, "" for NULL
FileEnabled == {"", "0", "1"}

\* no server object registered yet, no connection accepted
InitServer ==
    /\ heap = [p \in Ptrs |-> FREE]
    /\ setup_sessions = <<>>
    /\ sources = {}
    /\ bnep_io = "open"
    /\ listen_watch = TRUE
    /\ servers = [r \in AllRoles |-> NONE]
    /\ pending = {}
    /\ nextSk = 1
    /\ exited = FALSE
    /\ closed = {}
    /\ wire = [k \in Sks |-> <<>>]
    /\ requested = [k \in Sks |-> 0]
    /\ cancelled = [k \in Sks |-> <<>>]
    /\ freed = [k \in Sks |-> 0]
    /\ cause = [k \in Sks |-> [by |-> "", attempts |-> 0]]
    /\ chk = NoCall

\* server_register(path, src, id) called for a role: ok is whether the
\* D-Bus path and interface could be registered
register(role, ok) ==
    /\ servers[role] = NONE
    /\ servers' = IF ok THEN [servers EXCEPT ![role] = server_register(role)]
                  ELSE servers
    /\ UNCHANGED <<heap, setup_sessions, sources, bnep_io, listen_watch, pending,
                   nextSk, exited, closed, wire, requested, cancelled, freed, cause, chk>>

\* server_register_from_file: the object as the stored configuration gives
\* it; handle is what register_server_record returns
server_register_from_file(role, fname, fenabled, handle, ok) ==
    /\ servers[role] = NONE
    /\ fname = "" => fenabled = "" /\ handle = 0 /\ ok
    /\ fenabled # "1" => handle = 0
    /\ servers' =
          IF fname = "" \/ ~ok THEN servers
          ELSE [servers EXCEPT ![role] =
                   [id |-> role,
                    enable |-> fenabled = "1",
                    record_id |-> IF fenabled = "1" THEN handle ELSE 0,
                    clients |-> <<>>,
                    name |-> fname]]
    /\ UNCHANGED <<heap, setup_sessions, sources, bnep_io, listen_watch, pending,
                   nextSk, exited, closed, wire, requested, cancelled, freed, cause, chk>>

\* SetName: handle is what register_server_record returns when the record
\* is registered anew under the new name
set_name(role, name, handle) ==
    /\ servers[role] # NONE
    /\ (name = "" \/ ~(servers[role].enable /\ servers[role].record_id # 0))
          => handle = 0
    /\ servers' =
          IF name = "" THEN servers
          ELSE IF servers[role].enable /\ servers[role].record_id # 0
          THEN IF handle = 0 THEN [servers EXCEPT ![role].name = name]
               ELSE [servers EXCEPT ![role].name = name, ![role].record_id = handle]
          ELSE [servers EXCEPT ![role].name = name]
    /\ UNCHANGED <<heap, setup_sessions, sources, bnep_io, listen_watch, pending,
                   nextSk, exited, closed, wire, requested, cancelled, freed, cause, chk>>

NextServer ==
    \/ \E role \in AllRoles, ok \in BOOLEAN : register(role, ok)
    \/ \E role \in AllRoles, fname \in FileNames, fenabled \in FileEnabled,
          h \in RecordHandles, ok \in BOOLEAN :
          server_register_from_file(role, fname, fenabled, h, ok)
    \/ \E role \in AllRoles, adapter \in BOOLEAN, h \in RecordHandles :
          enable(role, adapter, h)
    \/ \E role \in AllRoles : disable(role)
    \/ \E role \in AllRoles, name \in Names, h \in RecordHandles :
          set_name(role, name, h)

SpecServer == InitServer /\ [][NextServer]_vars

\* ------------------------------------------- sessions with two servers enabled
\* the roles of the two server objects
TwoRoles == {BNEP_SVC_NAP, BNEP_SVC_GN}

\* the server object of a role after a successful Enable
enabled_server(role) ==
    [server_register(role) EXCEPT !.enable = TRUE, !.record_id = 1]

\* server_init has run, a NAP and a GN server are registered and enabled
InitTwo ==
    /\ heap = [p \in Ptrs |-> FREE]
    /\ setup_sessions = <<>>
    /\ sources = {}
    /\ bnep_io = "open"
    /\ listen_watch = TRUE
    /\ servers = [r \in TwoRoles |-> enabled_server(r)]
    /\ pending = {}
    /\ nextSk = 1
    /\ exited = FALSE
    /\ closed = {}
    /\ wire = [k \in Sks |-> <<>>]
    /\ requested = [k \in Sks |-> 0]
    /\ cancelled = [k \in Sks |-> <<>>]
    /\ freed = [k \in Sks |-> 0]
    /\ cause = [k \in Sks |-> [by |-> "", attempts |-> 0]]
    /\ chk = NoCall

\* the session events alone: connections, packets and conditions on the
\* sessions' sockets, deadlines, resolutions
NextTwo ==
    \/ \E peer \in Peers, p \in Ptrs : connect_event(peer, p)
    \/ \E w \in sources, cond \in Conds, pkt \in Packets, sendok \in BOOLEAN :
          connect_setup_event(w, cond, pkt, sendok)
    \/ \E t \in sources : setup_timeout(t)
    \/ \E c \in pending, reply \in Replies, b \in BringUps : authorization_reply(c, reply, b)

SpecTwo == InitTwo /\ [][NextTwo]_vars

\* ------------------------------------------------------- chk_role on its own
\* 16-bit role values: the three roles, their neighbours, byte-swapped and
\* half-matching values, and the ends of the range
RoleSamples ==
    {0, 1, BNEP_SVC_PANU - 1, BNEP_SVC_PANU, BNEP_SVC_NAP, BNEP_SVC_GN, BNEP_SVC_GN + 1,
     5393, 4629, 65535}

InitRole ==
    /\ heap = [p \in Ptrs |-> FREE]
    /\ setup_sessions = <<>>
    /\ sources = {}
    /\ bnep_io = "open"
    /\ listen_watch = TRUE
    /\ servers = [r \in ServerRoles |-> server_register(r)]
    /\ pending = {}
    /\ nextSk = 1
    /\ exited = FALSE
    /\ closed = {}
    /\ wire = [k \in Sks |-> <<>>]
    /\ requested = [k \in Sks |-> 0]
    /\ cancelled = [k \in Sks |-> <<>>]
    /\ freed = [k \in Sks |-> 0]
    /\ cause = [k \in Sks |-> [by |-> "", attempts |-> 0]]
    /\ chk \in [dst : RoleSamples, src : RoleSamples, ret : {NoRsp}]

call_chk_role ==
    /\ chk.ret = NoRsp
    /\ chk' = [chk EXCEPT !.ret = chk_role(chk.dst, chk.src)]
    /\ UNCHANGED <<heap, setup_sessions, sources, bnep_io, listen_watch, servers,
                   pending, nextSk, exited, closed, wire, requested, cancelled,
                   freed, cause>>

NextRole == call_chk_role

SpecRole == InitRole /\ [][NextRole]_vars

\* ================================================================= claims
\* the sessions in setup_sessions, by pointer and by socket
LivePtrs == {setup_sessions[i] : i \in 1..Len(setup_sessions)}
LiveSks == {heap[p].nsk : p \in LivePtrs}
PeerLive(a) == \E p \in LivePtrs : heap[p].address = a

\* C1: in every reachable state setup_sessions holds at most one session per
\* peer address (and no pointer twice).
C1_OneSessionPerPeer ==
    \A i, j \in 1..Len(setup_sessions) :
        i # j => /\ setup_sessions[i] # setup_sessions[j]
                 /\ heap[setup_sessions[i]].address # heap[setup_sessions[j]].address

\* a second connection of a peer was refused while its session is live
C1_Witness ==
    \E c \in closed : c.sk = nextSk - 1 /\ PeerLive(c.peer) /\ Len(setup_sessions) = 1

\* C2: a connection accepted from a peer that has a live session only closes
\* the new socket: no session, watch or timer is added, nothing is sent, the
\* existing sessions, the pending calls and the servers are unchanged, and
\* the listener is still accepting.
C2_DuplicateOnlyCloses ==
    [][\A peer \in Peers, p \in Ptrs :
          (PeerLive(peer) /\ connect_event(peer, p)) =>
              /\ closed' = closed \cup {[sk |-> nextSk, peer |-> peer]}
              /\ UNCHANGED <<heap, setup_sessions, sources, pending, servers,
                             wire, requested, cancelled, freed>>
              /\ listen_watch' /\ bnep_io' = "open"]_vars

\* the refused socket got no response and the first session is as it was made
C2_Witness ==
    \E c \in closed : \E p \in LivePtrs :
        /\ heap[p] = new_session(c.peer, heap[p].nsk)
        /\ heap[p].nsk < c.sk
        /\ wire[c.sk] = <<>>
        /\ {x.id : x \in sources} = {heap[p].watch, heap[p].timeout}
        /\ listen_watch

\* C3: every session is destroyed (taken out of setup_sessions and freed) at
\* most once, and a teardown that runs for a session already destroyed (a
\* further completion of one of its calls, its timer, its watch) removes and
\* frees nothing.
C3_DestroyedOnce ==
    [][/\ \A k \in Sks : freed'[k] <= 1
       /\ \A c \in pending, i \in ReplyInputs :
             (freed[c.sk] >= 1 /\ authorization_reply(c, i.reply, i.b)) =>
                 UNCHANGED <<setup_sessions, heap, freed>>
       /\ \A t \in sources :
             (freed[t.sk] >= 1 /\ setup_timeout(t)) =>
                 UNCHANGED <<setup_sessions, heap, freed>>
       /\ \A w \in sources, i \in SetupInputs :
             (freed[w.sk] >= 1 /\ connect_setup_event(w, i.cond, i.pkt, i.sendok)) =>
                 UNCHANGED <<setup_sessions, heap, freed>>]_vars

\* the half of C3 that needs no reuse of an address: no socket's session is
\* freed twice
C3_FreedAtMostOnce == [][\A k \in Sks : freed'[k] <= 1]_vars

\* the session of socket k is gone and nothing was ever sent for it
Silent(k) ==
    /\ k \notin LiveSks
    /\ freed[k] = 1
    /\ wire[k] = <<>> /\ requested[k] = 0 /\ cancelled[k] = <<>>
    /\ \A x \in sources : x.sk # k
    /\ \A c \in pending : c.sk # k

\* C4: when the deadline timer of a session that has received no valid setup
\* request (attempts 0, timer still armed) fires, the session is destroyed
\* in that step, exactly once, with no response, no authorization request
\* and no cancel sent for it, and none is sent for it at any later time.
C4_TimeoutSilent ==
    [][/\ \A t \in sources :
             (/\ t.kind = "timeout"
              /\ heap[t.data] # FREE
              /\ heap[t.data].attempts = 0 /\ heap[t.data].timeout = t.id
              /\ setup_timeout(t)) => Silent(t.sk)'
       /\ \A k \in Sks : cause[k].by = "timeout" => Silent(k)'
      ]_vars

\* a session timed out, and the run went on to accept the peer again
C4_Witness ==
    \E k \in Sks :
        /\ cause[k] = [by |-> "timeout", attempts |-> 0]
        /\ Silent(k)
        /\ nextSk > k + 1
        /\ LiveSks # {}

\* the size condition as the claim words it
C5_BadSize(pkt) ==
    LET uuid_size == IF Len(pkt) >= 3 THEN pkt[3] ELSE 0
    IN  uuid_size # 2 \/ Len(pkt) # 3 + 2 * uuid_size

InvalidSvcRsp == <<BNEP_CONTROL, BNEP_SETUP_CONN_RSP, 0, 3>>
NotAllowedRsp == <<BNEP_CONTROL, BNEP_SETUP_CONN_RSP, 0, 4>>
SuccessRsp == <<BNEP_CONTROL, BNEP_SETUP_CONN_RSP, 0, 0>>

\* C5: a packet received on a live session whose uuid_size is not 2 or whose
\* length is not header + 2 * uuid_size is answered with INVALID_SVC, the
\* session is destroyed, and no authorization request is issued, whatever the
\* packet's type and opcode and the roles it carries.
C5_BadSizeInvalidSvc ==
    [][\A w \in sources, i \in SetupInputs :
          (/\ w.kind = "watch"
           /\ heap[w.data] # FREE
           /\ i.cond = "IN"
           /\ C5_BadSize(i.pkt)
           /\ connect_setup_event(w, i.cond, i.pkt, i.sendok)) =>
              /\ wire'[w.sk] = Append(wire[w.sk], InvalidSvcRsp)
              /\ w.sk \notin LiveSks'
              /\ freed'[w.sk] = freed[w.sk] + 1
              /\ heap'[w.data] = FREE
              /\ requested' = requested
              /\ pending' = pending]_vars

\* a session that had an authorization request out was ended by a packet
\* (the handler is the only one that answers INVALID_SVC)
C5_Witness ==
    \E k \in Sks :
        /\ cause[k].by = "watch" /\ cause[k].attempts = 1
        /\ wire[k] = <<InvalidSvcRsp>>
        /\ requested[k] = 1
        /\ freed[k] = 1

\* C6: chk_role(dst, src) is 0 when dst is NAP or GN and src is PANU, or dst
\* is PANU and src is PANU, GN or NAP; INVALID_SRC when dst is one of the
\* three roles and src is not acceptable for it; INVALID_DST when dst is none
\* of the three roles.
C6_ChkRoleTable ==
    chk.ret # NoRsp =>
        LET dst == chk.dst
            src == chk.src
            known == dst \in {BNEP_SVC_NAP, BNEP_SVC_GN, BNEP_SVC_PANU}
            ok == \/ dst \in {BNEP_SVC_NAP, BNEP_SVC_GN} /\ src = BNEP_SVC_PANU
                  \/ dst = BNEP_SVC_PANU
                        /\ src \in {BNEP_SVC_PANU, BNEP_SVC_GN, BNEP_SVC_NAP}
        IN  /\ ok => chk.ret = 0
            /\ (known /\ ~ok) => chk.ret = BNEP_CONN_INVALID_SRC
            /\ ~known => chk.ret = BNEP_CONN_INVALID_DST

\* chk_role was called for a PANU destination with a GN source
C6_Witness ==
    chk = [dst |-> BNEP_SVC_PANU, src |-> BNEP_SVC_GN, ret |-> 0]

\* the roles the table of the PAN profile accepts together
C7_Compatible(dst, src) ==
    \/ dst \in {BNEP_SVC_NAP, BNEP_SVC_GN} /\ src = BNEP_SVC_PANU
    \/ dst = BNEP_SVC_PANU /\ src \in {BNEP_SVC_PANU, BNEP_SVC_GN, BNEP_SVC_NAP}

\* C7: on a live session, a well-formed, role-compatible setup request for
\* an enabled server is not refused for the retry bound while fewer than
\* three came before it (the session stays, nothing is answered, one
\* authorization request goes out), and the fourth one is answered with
\* NOT_ALLOWED, issues no authorization request and destroys the session.
C7_FourthRequestRejected ==
    [][\A w \in sources, d, r \in RoleValues, sendok \in BOOLEAN :
          (/\ w.kind = "watch"
           /\ heap[w.data] # FREE
           /\ C7_Compatible(d, r)
           /\ server_enabled(d)
           /\ connect_setup_event(w, "IN",
                  SetupReq(BNEP_CONTROL, BNEP_SETUP_CONN_REQ, 2, d, r), sendok)) =>
              IF heap[w.data].attempts < 3
              THEN sendok =>
                      /\ w.sk \in LiveSks'
                      /\ heap'[w.data].attempts = heap[w.data].attempts + 1
                      /\ wire' = wire
                      /\ requested'[w.sk] = requested[w.sk] + 1
              ELSE /\ heap[w.data].attempts = 3
                   /\ wire'[w.sk] = Append(wire[w.sk], NotAllowedRsp)
                   /\ requested' = requested
                   /\ pending' = pending
                   /\ w.sk \notin LiveSks'
                   /\ freed'[w.sk] = 1]_vars

\* three requests went out for a session and its fourth request ended it
C7_Witness ==
    \E k \in Sks :
        /\ cause[k] = [by |-> "watch", attempts |-> 4]
        /\ requested[k] = 3
        /\ wire[k] = <<NotAllowedRsp>>
        /\ freed[k] = 1

\* C8: every session in setup_sessions has at most one authorization call
\* issued for it and not yet resolved.
C8_OneOutstandingRequest ==
    \A p \in LivePtrs :
        Cardinality({c \in pending : c.data = p /\ c.sk = heap[p].nsk}) <= 1

\* the number of times addr occurs in a client list
Occurrences(list, addr) == Cardinality({i \in DOMAIN list : list[i] = addr})

\* C9: an Approved resolution for a live session of an enabled server whose
\* interface creation and bridge attachment succeed sends SUCCESS, and from
\* then on the peer's address occurs exactly once in that server's clients,
\* whatever sessions of the peer came before or come after.
C9_AdmittedExactlyOnce ==
    [][/\ \A c \in pending, b \in BringUps :
             (/\ g_slist_find(setup_sessions, c.data)
              /\ server_enabled(heap[c.data].dst_role)
              /\ b.connadd /\ b.attach
              /\ authorization_reply(c, "approved", b)) =>
                 /\ wire'[heap[c.data].nsk] = Append(wire[heap[c.data].nsk], SuccessRsp)
                 /\ Occurrences(servers'[heap[c.data].dst_role].clients,
                                heap[c.data].address) = 1
       /\ \A r \in ServerRoles, a \in Peers :
             Occurrences(servers[r].clients, a) >= 1 =>
                Occurrences(servers'[r].clients, a) = 1
      ]_vars

\* C10: an Approved resolution for a live session of an enabled server in
\* which a bring-up step fails (interface creation, bridge attachment, or
\* bringing the interface up) sends NOT_ALLOWED, leaves the server's clients
\* as they were, and destroys the session.
C10_BringUpFailureRejected ==
    [][\A c \in pending, b \in BringUps :
          (/\ g_slist_find(setup_sessions, c.data)
           /\ server_enabled(heap[c.data].dst_role)
           /\ (~b.connadd \/ ~b.attach \/ ~b.ifup)
           /\ authorization_reply(c, "approved", b)) =>
              /\ wire'[heap[c.data].nsk] = Append(wire[heap[c.data].nsk], NotAllowedRsp)
              /\ servers' = servers
              /\ heap[c.data].nsk \notin LiveSks'
              /\ heap'[c.data] = FREE]_vars

\* the cancel message for the session s: its peer address and requested role
CancelFor(s) == [address |-> s.address, uuid |-> s.dst_role]

\* the call c was issued for the session now at its data pointer
OwnCall(c) == g_slist_find(setup_sessions, c.data) /\ heap[c.data].nsk = c.sk

\* C11: a hangup or socket error on a live session that awaits authorization
\* (attempts >= 1) sends one cancel request for it and destroys it; a hangup
\* on a session with attempts = 0 destroys it and sends no cancel; in both
\* cases no response is sent on the session's socket, at the hangup or at
\* any later time (when the authorization resolves).
C11_HangupCancels ==
    [][/\ \A w \in sources :
             (/\ w.kind = "watch"
              /\ heap[w.data] # FREE
              /\ connect_setup_event(w, "HUP", <<>>, TRUE)) =>
                 /\ cancelled' =
                       IF heap[w.data].attempts >= 1
                       THEN [cancelled EXCEPT ![w.sk] = Append(@, CancelFor(heap[w.data]))]
                       ELSE cancelled
                 /\ wire[w.sk] = <<>> /\ wire' = wire
                 /\ w.sk \notin LiveSks'
                 /\ heap'[w.data] = FREE
                 /\ freed'[w.sk] = 1
       /\ \A k \in Sks : cause[k].by = "hup" => wire'[k] = <<>>
      ]_vars

\* a session that awaited authorization was hung up, a cancel went out, and
\* its authorization call has since resolved
C11_Witness ==
    \E k \in Sks :
        /\ cause[k] = [by |-> "hup", attempts |-> 1]
        /\ Len(cancelled[k]) = 1
        /\ requested[k] = 1
        /\ \A c \in pending : c.sk # k
        /\ wire[k] = <<>>

\* C12: when the authorization call of a live session resolves as no-reply,
\* a cancel request keyed by the session's peer address and requested role is
\* issued, NOT_ALLOWED is sent to the peer and the session is destroyed, in
\* every state the resolution can arrive in (also with the server disabled).
C12_NoReplyCancels ==
    [][\A c \in pending :
          (/\ OwnCall(c)
           /\ authorization_reply(c, "noreply", NoBringUp)) =>
              /\ cancelled'[c.sk] = Append(cancelled[c.sk], CancelFor(heap[c.data]))
              /\ wire'[c.sk] = Append(wire[c.sk], NotAllowedRsp)
              /\ c.sk \notin LiveSks'
              /\ heap'[c.data] = FREE]_vars

\* C13: in every reachable state every registered server object has a
\* non-zero record_id if and only if its enable flag is set.
C13_RecordIffEnabled ==
    \A r \in DOMAIN servers :
        servers[r] # NONE => (servers[r].record_id # 0 <=> servers[r].enable)

\* every live session but the one of socket k is as it was and still live
OthersKept(k) ==
    /\ \A p \in LivePtrs :
          heap[p].nsk # k => /\ g_slist_find(setup_sessions', p)
                             /\ heap'[p] = heap[p]
    /\ \A x \in sources : x.sk # k => x \in sources'

\* C14: an event handled for one session (a packet, a hangup, its deadline,
\* a resolution of one of its authorization calls, also one that arrives
\* after the session was destroyed) leaves every other live session's state
\* and its membership in setup_sessions unchanged, and the listener goes on
\* accepting.
C14_OtherSessionsUntouched ==
    [][/\ \A w \in sources, i \in SetupInputs :
             (w.kind = "watch" /\ connect_setup_event(w, i.cond, i.pkt, i.sendok)) =>
                 OthersKept(w.sk) /\ UNCHANGED <<listen_watch, bnep_io>>
       /\ \A t \in sources :
             (t.kind = "timeout" /\ setup_timeout(t)) =>
                 OthersKept(t.sk) /\ UNCHANGED <<listen_watch, bnep_io>>
       /\ \A c \in pending, i \in ReplyInputs :
             authorization_reply(c, i.reply, i.b) =>
                 OthersKept(c.sk) /\ UNCHANGED <<listen_watch, bnep_io>>
      ]_vars

InvalidSrcRsp == <<BNEP_CONTROL, BNEP_SETUP_CONN_RSP, 0, 2>>
InvalidDstRsp == <<BNEP_CONTROL, BNEP_SETUP_CONN_RSP, 0, 1>>

\* the reject code of the role table for a pair it does not accept
C15_Reject(dst, src) ==
    IF dst \in {BNEP_SVC_NAP, BNEP_SVC_GN, BNEP_SVC_PANU}
    THEN InvalidSrcRsp ELSE InvalidDstRsp

\* C15: a correctly sized setup request on a live session whose (dst, src)
\* pair the role table does not accept is answered with the table's code
\* for (dst, src) (INVALID_SRC for a known dst, INVALID_DST for an unknown
\* one), destroys the session and issues no authorization request; a pair
\* the table accepts is not answered with INVALID_SRC or INVALID_DST.
C15_RoleRejectCode ==
    [][\A w \in sources, d, r \in RoleValues, sendok \in BOOLEAN :
          (/\ w.kind = "watch"
           /\ heap[w.data] # FREE
           /\ connect_setup_event(w, "IN",
                  SetupReq(BNEP_CONTROL, BNEP_SETUP_CONN_REQ, 2, d, r), sendok)) =>
              IF C7_Compatible(d, r)
              THEN /\ wire'[w.sk] # Append(wire[w.sk], InvalidSrcRsp)
                   /\ wire'[w.sk] # Append(wire[w.sk], InvalidDstRsp)
              ELSE /\ wire'[w.sk] = Append(wire[w.sk], C15_Reject(d, r))
                   /\ w.sk \notin LiveSks'
                   /\ heap'[w.data] = FREE
                   /\ requested' = requested
                   /\ pending' = pending]_vars

\* the type condition as the claim words it, on a packet of 7 bytes
C16_BadType(pkt) == pkt[1] # 1 \/ pkt[2] # 1

\* C16: a packet received on a live session that passes the size check but
\* whose type is not CONTROL or whose opcode is not SETUP_CONN_REQ destroys
\* the session, with no response sent and no authorization request issued.
C16_BadTypeSilentDrop ==
    [][\A w \in sources, i \in SetupInputs :
          (/\ w.kind = "watch"
           /\ heap[w.data] # FREE
           /\ i.cond = "IN"
           /\ ~C5_BadSize(i.pkt)
           /\ C16_BadType(i.pkt)
           /\ connect_setup_event(w, i.cond, i.pkt, i.sendok)) =>
              /\ wire' = wire
              /\ requested' = requested
              /\ pending' = pending
              /\ cancelled' = cancelled
              /\ w.sk \notin LiveSks'
              /\ heap'[w.data] = FREE
              /\ freed'[w.sk] = 1]_vars

\* a session with a request out was ended by a packet that drew no answer
C16_Witness ==
    \E k \in Sks :
        /\ cause[k] = [by |-> "watch", attempts |-> 1]
        /\ wire[k] = <<>>
        /\ requested[k] = 1
        /\ freed[k] = 1

\* C17: a well-formed, role-compatible setup request on a live session whose
\* destination role has no registered server object, or a disabled one, is
\* answered with NOT_ALLOWED, destroys the session and issues no
\* authorization request.
C17_NoServerNotAllowed ==
    [][\A w \in sources, d, r \in RoleValues, sendok \in BOOLEAN :
          (/\ w.kind = "watch"
           /\ heap[w.data] # FREE
           /\ C7_Compatible(d, r)
           /\ (d \notin DOMAIN servers \/ ~servers[d].enable)
           /\ connect_setup_event(w, "IN",
                  SetupReq(BNEP_CONTROL, BNEP_SETUP_CONN_REQ, 2, d, r), sendok)) =>
              /\ wire'[w.sk] = Append(wire[w.sk], NotAllowedRsp)
              /\ w.sk \notin LiveSks'
              /\ heap'[w.data] = FREE
              /\ requested' = requested
              /\ pending' = pending]_vars

\* a session that never passed the lookup was answered NOT_ALLOWED by its
\* handler while another session, admitted to a request earlier, is waiting
C17_Witness ==
    \E k \in Sks :
        /\ cause[k] = [by |-> "watch", attempts |-> 0]
        /\ wire[k] = <<NotAllowedRsp>>
        /\ requested[k] = 0
        /\ freed[k] = 1
        /\ \E c \in pending : c.sk # k /\ OwnCall(c)

\* C18: when the authorization call of a live session resolves as denied,
\* NOT_ALLOWED is sent, the session is destroyed, the servers' clients are
\* unchanged and no cancel request is sent.
C18_DeniedNoCancel ==
    [][\A c \in pending :
          (/\ g_slist_find(setup_sessions, c.data)
           /\ authorization_reply(c, "denied", NoBringUp)) =>
              /\ wire'[heap[c.data].nsk] = Append(wire[heap[c.data].nsk], NotAllowedRsp)
              /\ heap[c.data].nsk \notin LiveSks'
              /\ heap'[c.data] = FREE
              /\ servers' = servers
              /\ cancelled' = cancelled]_vars

\* a session of an enabled server was ended by a resolution with
\* NOT_ALLOWED and without a cancel
C18_Witness ==
    \E k \in Sks :
        /\ cause[k] = [by |-> "reply", attempts |-> 1]
        /\ wire[k] = <<NotAllowedRsp>>
        /\ cancelled[k] = <<>>
        /\ servers[BNEP_SVC_NAP].enable
        /\ servers[BNEP_SVC_NAP].clients = <<>>
        /\ pending = {}

\* C19: a resolution (approved, denied, no-reply) of a call whose session
\* is no longer in setup_sessions does nothing: no response, no cancel, no
\* change of any server's clients, no live session modified or destroyed,
\* also when a new session has been created in the meantime.
C19_LateResolutionNoOp ==
    [][\A c \in pending, i \in ReplyInputs :
          (/\ c.sk \notin LiveSks
           /\ authorization_reply(c, i.reply, i.b)) =>
              UNCHANGED <<wire, cancelled, servers, heap, setup_sessions, sources>>
      ]_vars

\* C20: when a packet, a hangup or an invalid socket condition destroys a
\* live session that has an authorization call outstanding, a cancel
\* message with the key of that call (peer address, role) is sent.
C20_DestroyedWhilePendingCancels ==
    [][\A w \in sources, i \in SetupInputs :
          (/\ w.kind = "watch"
           /\ heap[w.data] # FREE
           /\ \E c \in pending : c.sk = w.sk
           /\ connect_setup_event(w, i.cond, i.pkt, i.sendok)
           /\ w.sk \notin LiveSks') =>
              \E c \in pending :
                 c.sk = w.sk /\ cancelled'[w.sk] = Append(cancelled[w.sk], c.msg)]_vars

\* C21: a resolution delivered for a live session sends exactly one
\* response, SUCCESS or NOT_ALLOWED, on the session's socket and destroys
\* the session in the same step; no socket ever carries more than one setup
\* response, and once a response is out the session is not live and its
\* watch is no longer registered.
C21_OneResponseThenDestroyed ==
    [][/\ \A c \in pending, i \in ReplyInputs :
             (/\ g_slist_find(setup_sessions, c.data)
              /\ authorization_reply(c, i.reply, i.b)) =>
                 LET k == heap[c.data].nsk
                 IN  /\ wire[k] = <<>>
                     /\ wire'[k] \in {<<SuccessRsp>>, <<NotAllowedRsp>>}
                     /\ \A j \in Sks \ {k} : wire'[j] = wire[j]
                     /\ ~g_slist_find(setup_sessions', c.data)
                     /\ heap'[c.data] = FREE
                     /\ freed'[k] = 1
       /\ \A k \in Sks :
             /\ Len(wire'[k]) <= 1
             /\ wire'[k] # <<>> =>
                   /\ k \notin LiveSks'
                   /\ \A x \in sources' : x.sk = k => x.kind # "watch"
      ]_vars

\* two requests went out for a session; the first resolution answered
\* SUCCESS and destroyed it, and the second has resolved since
C21_Witness ==
    \E k \in Sks :
        /\ cause[k] = [by |-> "reply", attempts |-> 2]
        /\ requested[k] = 2
        /\ wire[k] = <<SuccessRsp>>
        /\ \A c \in pending : c.sk # k

\* C22: a session starts with attempts = 0 and its deadline timer armed;
\* in every reachable state a live session has its timer armed (timeout
\* set and the timeout source registered) if and only if attempts = 0, and
\* no registered timer belongs to a live session with attempts >= 1.
C22_TimerIffNoAttempt ==
    /\ \A p \in LivePtrs :
          /\ heap[p].attempts = 0 <=> heap[p].timeout # 0
          /\ heap[p].attempts = 0 <=>
                \E x \in sources : x.kind = "timeout" /\ x.data = p /\ x.sk = heap[p].nsk
          /\ heap[p].timeout # 0 =>
                \E x \in sources : x.kind = "timeout" /\ x.id = heap[p].timeout
                                      /\ x.data = p
    /\ \A x \in sources :
          (x.kind = "timeout" /\ heap[x.data] # FREE) => heap[x.data].attempts = 0

\* one session awaits authorization with its timer gone, another has just
\* been accepted with its timer armed
C22_Witness ==
    \E p, q \in LivePtrs :
        /\ heap[p].attempts = 1 /\ heap[p].timeout = 0
        /\ \A x \in sources : x.sk = heap[p].nsk => x.kind = "watch"
        /\ \E c \in pending : OwnCall(c) /\ c.data = p
        /\ heap[q] = new_session(heap[q].address, heap[q].nsk)
        /\ \E x \in sources : x.kind = "timeout" /\ x.id = heap[q].timeout

\* C23: a server's clients change only by the append of a peer's address,
\* in the step in which an Approved resolution of a call of that peer's
\* live session sends SUCCESS on its socket; nothing else (a rejection, a
\* denial, a no-reply, a hangup, a deadline, a late resolution, Disable)
\* adds to or removes from clients.
C23_ClientsOnlyGrowOnSuccess ==
    [][\A r \in DOMAIN servers :
          servers'[r].clients # servers[r].clients =>
             \E c \in pending, b \in BringUps :
                /\ OwnCall(c)
                /\ authorization_reply(c, "approved", b)
                /\ servers'[r].clients = Append(servers[r].clients, heap[c.data].address)
                /\ wire'[c.sk] = Append(wire[c.sk], SuccessRsp)]_vars

\* C24: an Approved resolution of a live session's call whose target server
\* is disabled (or not registered) at that moment is answered with
\* NOT_ALLOWED whatever the bring-up would give, adds nothing to clients and
\* destroys the session; no step adds a client to a disabled server.
C24_DisabledNeverAdmits ==
    [][/\ \A c \in pending, b \in BringUps :
             (/\ OwnCall(c)
              /\ (c.msg.uuid \notin DOMAIN servers \/ ~servers[c.msg.uuid].enable)
              /\ authorization_reply(c, "approved", b)) =>
                 /\ wire'[c.sk] = Append(wire[c.sk], NotAllowedRsp)
                 /\ servers' = servers
                 /\ c.sk \notin LiveSks'
                 /\ heap'[c.data] = FREE
       /\ \A r \in DOMAIN servers :
             servers'[r].clients # servers[r].clients => servers[r].enable
      ]_vars

\* a request went out, the server was disabled, and the resolution was
\* answered NOT_ALLOWED with nobody admitted
C24_Witness ==
    \E k \in Sks :
        /\ cause[k] = [by |-> "reply", attempts |-> 1]
        /\ requested[k] = 1
        /\ wire[k] = <<NotAllowedRsp>>
        /\ ~servers[BNEP_SVC_NAP].enable
        /\ servers[BNEP_SVC_NAP].clients = <<>>
        /\ pending = {}

\* C26: in every reachable state each registered watch and timer refers to
\* a session that is in setup_sessions and not freed (every teardown,
\* server_exit included, unregisters the session's sources).
C26_NoSourceForFreedSession ==
    \A x \in sources :
        /\ g_slist_find(setup_sessions, x.data)
        /\ heap[x.data] # FREE
        /\ heap[x.data].nsk = x.sk

\* C25: whenever a resolution admits a peer (appends it to a server's
\* clients), the server is the one of the destination role named in the
\* authorization request that was approved, also when a later setup request
\* of the session named another role.
C25_AdmittedUnderRequestedRole ==
    [][\A c \in pending, b \in BringUps, r \in DOMAIN servers :
          (/\ authorization_reply(c, "approved", b)
           /\ servers'[r].clients # servers[r].clients) =>
              r = c.msg.uuid]_vars
====
